---- MODULE Spec2Model ----
(***************************************************************************)
(* The agent orchestration core of Azul: one Agent (a session) with its    *)
(* conversation history, loop counter, pending-approval table and approval *)
(* timers, driven by the inbound commands of its front end (user message,  *)
(* approval decision, reset, connection close) and by the completions of   *)
(* the inference capability and of the tools.                              *)
(*                                                                         *)
(* JavaScript runs one handler at a time: every action below is one        *)
(* synchronous segment of the code, from the event that starts it to the   *)
(* next await.  A continuation released by a promise resolution is a       *)
(* microtask: it runs before any further event is handled, which the       *)
(* microtasks queue and the guard Quiet model.                             *)
(***************************************************************************)
EXTENDS Integers, Sequences, FiniteSets, TLC

VARIABLES
    conversationHistory, \* Agent.conversationHistory
    systemPrompt,        \* Agent.systemPrompt
    currentLoopCount,    \* Agent.currentLoopCount
    pendingApprovals,    \* Agent.pendingApprovals, in Map insertion order
    timers,              \* the setTimeout callbacks of requestApproval not yet fired
    microtasks,          \* turns whose continuation is queued as a microtask
    pc,                  \* per turn: where its handleUserMessage call stands
    calls,               \* per turn: the calls of the batch not yet finished (head = current)
    callId,              \* per turn: toolCallId of the current call
    promise,             \* per turn: the approval promise it awaits or last awaited
    approved,            \* per turn: the value its last approval promise resolved to
    decidedBy,           \* per turn: what resolved the promise of its current request
    wsOpen,              \* the client connection is open (agent still in WebSocketManager.agents)
    llm,                 \* the inference capability of the run, see LLMAnswers
    client,              \* the client of the run: "serial" or "overlapping"
    resetSent,           \* the client has sent a reset since its last message
    out,                 \* the events passed to sendMessage by the last step
    last,                \* the last step taken
    inferences,          \* per turn: getCompletion calls made so far
    maxMsgs,             \* per turn: maximum-iterations agent_response events emitted
    asked,               \* an approval_request has been sent in this run
    interrupted,         \* a reset hit a turn suspended on an approval; no user message accepted since
    totalInputTokens,    \* LLMService.totalInputTokens of the instance all sessions are given
    totalOutputTokens,   \* LLMService.totalOutputTokens of that instance
    sessThinking,        \* per session: its getCompletion call is in flight
    sessHistory,         \* per session: length of its conversationHistory
    sessCumulative,      \* per session: cumulativeTotalTokens of its last token_stats event
    sessOwn,             \* per session: tokens its own calls counted since its own last reset
    sessExpected,        \* per session: sessOwn when its last token_stats event was sent
    modelText,           \* the response text given to parseResponse
    parsed,              \* what parseResponse returned for it, NotParsed before the call
    streamingResponse,   \* Agent.streamingResponse
    isFirstToken,        \* per inference call: the isFirstToken of its onToken callback
    streamPc,            \* per inference call: "idle", "running" or "returned"
    increments,          \* per inference call: the increments its service has passed to onToken
    streamContent,       \* per inference call: content of its last agent_response_stream event
    completion,          \* per inference call: the response getCompletion resolved with
    uiPending,           \* App state.pendingApproval: its requestId, NoId when null
    uiRequests           \* approval requests created so far in the run of the client App

sessVars == <<totalInputTokens, totalOutputTokens, sessThinking, sessHistory,
              sessCumulative, sessOwn, sessExpected>>

parserVars == <<modelText, parsed>>

streamVars == <<streamingResponse, isFirstToken, streamPc, increments, streamContent,
                completion>>

\* what the handlers of the Agent under study leave alone
uiVars == <<uiPending, uiRequests>>

envVars == <<llm, client, sessVars, parserVars, streamVars, uiVars>>

vars == <<conversationHistory, systemPrompt, currentLoopCount, pendingApprovals,
          timers, microtasks, pc, calls, callId, promise, approved, decidedBy, wsOpen,
          llm, client, resetSent, out, last, inferences,
          maxMsgs, asked, interrupted, sessVars, parserVars, streamVars, uiVars>>

----------------------------------------------------------------------------
(* Bounds of the model *)

MaxTurns == 2          \* user messages accepted in one run
MaxTextLen == 4        \* longest model output given to the parser, in tokens
MaxTokens == 6         \* no inference call starts once a token count has reached this
MaxIncrements == 2     \* increments one inference call passes to onToken
MaxRequests == 3       \* approval requests created in one run of the client App

(* Program constants *)

maxLoopIterations == 10

Turns == 1..MaxTurns
Sessions == {"A", "B"}            \* the connections of a WebSocketManager
Promises == 1..(2 * MaxTurns)

NoId == "none"
RequestIds == {"r1", "r2"}        \* values of Math.random().toString(36).substring(7)
GenIds == {"call_1", "call_2"}    \* values of `call_${Math.random()...}`
UnknownIds == {"zz"}              \* a requestId no request was ever given

----------------------------------------------------------------------------
(* The tool registry *)

ToolNames == {"read_file", "write_file", "list_dir", "execute_command", "search_files"}

requiresApproval_Every(name) == name = name

requiresApproval_None(name) == name # name

requiresApproval(name) == name \in {"write_file", "execute_command"}

getToolByName(name) == IF name \in ToolNames THEN name ELSE NoId

----------------------------------------------------------------------------
(* Messages, tool calls, events *)

Msg(role, content, id, tcs) ==
    [role |-> role, content |-> content, tool_call_id |-> id, tool_calls |-> tcs]

Call(id, name) == [id |-> id, name |-> name, arguments |-> "args"]

Ev(type, tool, payload) == [type |-> type, tool |-> tool, payload |-> payload]

UserText(t) == <<"user text", t>>

InitialSystemPrompt == "You are Azul, an AI coding assistant running locally."

DefaultThought == <<"I'll use tools to complete this task.">>
MaxIterError == <<"Maximum loop iterations reached. Stopping to prevent infinite loop.">>
MaxIterText == <<"I've reached the maximum number of iterations.">>
DeniedResult == <<"success:false", "User denied approval">>
UnknownToolError(name) == <<"Unknown tool: ", name>>
UnknownToolResult(name) == <<"success:false">> \o UnknownToolError(name)
OkResult(name) == <<"result of ", name>>
ThrownResult(name) == <<"success:false", "error thrown by ", name>>

(* What the inference capability can answer, as parseResponse returns it:   *)
(* thought, tool_calls and response, with <<>> for an absent field.         *)
Parsed(raw, thought, tcs, response) ==
    [raw |-> raw, thought |-> thought, tool_calls |-> tcs, response |-> response]

ReadBatch == Parsed(<<"raw read">>, <<"t">>, <<Call("c1", "read_file")>>, <<>>)
WriteBatch == Parsed(<<"raw write">>, <<>>, <<Call("c1", "write_file")>>, <<>>)
MixedBatch ==
    Parsed(<<"raw mixed">>, <<"t">>,
           <<Call("c1", "no_such_tool"), Call("c2", "execute_command")>>, <<>>)
SeqBatch ==
    Parsed(<<"raw seq">>, <<"t">>, <<Call("c1", "read_file"), Call("c2", "list_dir")>>, <<>>)
\* two calls to which the model gave the same id
TwinBatch ==
    Parsed(<<"raw twin">>, <<>>, <<Call("c1", "read_file"), Call("c1", "list_dir")>>, <<>>)
BareBatch == Parsed(<<"raw bare">>, <<>>, <<Call(NoId, "list_dir")>>, <<>>)
FinalAnswer == Parsed(<<"raw final">>, <<>>, <<>>, <<"answer">>)

----------------------------------------------------------------------------
(* parseResponse.  A model output is a sequence of tokens: "a" is a piece   *)
(* of prose without braces, "{" and "}" are braces, and "H", "T", "R" are   *)
(* the members "thought": ..., "tool_calls": [...], "response": ... of a    *)
(* JSON object; a "{" inside an object opens the object value of a member.  *)

TextTokens == {"a", "{", "}", "H", "T", "R"}

NotParsed == [kind |-> "none"]

\* the number of "{" minus the number of "}" among the first k tokens of s
RECURSIVE Depth(_, _)
Depth(s, k) ==
    IF k = 0 THEN 0
    ELSE Depth(s, k - 1) + (CASE s[k] = "{" -> 1 [] s[k] = "}" -> -1 [] OTHER -> 0)

\* JSON.parse accepts s as an object
RECURSIVE IsObject(_)
IsObject(s) ==
    /\ Len(s) >= 2 /\ s[1] = "{" /\ s[Len(s)] = "}"
    /\ \A k \in 1..(Len(s) - 1) : Depth(s, k) >= 1
    /\ Depth(s, Len(s)) = 0
    /\ \A k \in 2..(Len(s) - 1) :
          /\ s[k] # "a"
          /\ (s[k] = "{" /\ Depth(s, k) = 2) =>
                \E m \in (k + 1)..(Len(s) - 1) :
                    /\ Depth(s, m) = 1 /\ \A n \in k..(m - 1) : Depth(s, n) >= 2
                    /\ IsObject(SubSeq(s, k, m))

\* the fields of the value JSON.parse returns for the object s
Intent(s) ==
    LET top == {s[k] : k \in {n \in 2..(Len(s) - 1) : Depth(s, n) = 1 /\ s[n] # "}"}}
    IN  [kind |-> "parsed", thought |-> "H" \in top, tool_calls |-> "T" \in top,
         response |-> IF "R" \in top THEN <<"R">> ELSE <<>>]

\* response.match(/\{[\s\S]*\}/): from the first "{" to the last "}"
Match(text) ==
    LET opens == {k \in DOMAIN text : text[k] = "{"}
        first == CHOOSE k \in opens : \A n \in opens : k <= n
        closes == {k \in DOMAIN text : text[k] = "}" /\ k > first}
        lastc == CHOOSE k \in closes : \A n \in closes : k >= n
    IN  IF opens = {} THEN <<>>
        ELSE IF closes = {} THEN <<>>
        ELSE SubSeq(text, first, lastc)

parseResponse_FirstToken(text) ==
    IF Match(text) # <<>> /\ IsObject(Match(text))
    THEN Intent(Match(text))
    ELSE [kind |-> "parsed", thought |-> FALSE, tool_calls |-> FALSE,
          response |-> SubSeq(text, 1, 1)]

\* Agent.parseResponse
parseResponse(text) ==
    IF Match(text) # <<>> /\ IsObject(Match(text))
    THEN Intent(Match(text))
    ELSE [kind |-> "parsed", thought |-> FALSE, tool_calls |-> FALSE, response |-> text]

\* The answer of the inference capability whose full text is text, as
\* runAgentLoop uses it: const parsedResponse = this.parseResponse(response)
ModelOutput(text) ==
    LET p == parseResponse(text)
    IN  Parsed(text,
               IF p.thought THEN <<"t">> ELSE <<>>,
               IF p.tool_calls THEN <<Call("c1", "read_file")>> ELSE <<>>,
               p.response)

\* plain prose, and prose with an opening brace that is never closed
ProseAnswer == ModelOutput(<<"a", "a">>)
BraceProseAnswer == ModelOutput(<<"a", "{", "a">>)

ProseAnswers == {ProseAnswer, BraceProseAnswer}

\* well-formed payloads: a thought and a response; a thought only; tool calls
\* and a response
JsonAnswer == ModelOutput(<<"{", "H", "R", "}">>)
ThoughtOnlyAnswer == ModelOutput(<<"{", "H", "}">>)
CallsAndResponse == ModelOutput(<<"a", "{", "T", "R", "}">>)

JsonAnswers == {JsonAnswer, ThoughtOnlyAnswer, CallsAndResponse}

Responses ==
    {ReadBatch, WriteBatch, MixedBatch, SeqBatch, TwinBatch, BareBatch, FinalAnswer}
        \cup ProseAnswers \cup JsonAnswers

----------------------------------------------------------------------------
(* The pending-approval table: a Map, kept as its entries in insertion order *)

Entry(rid, p) == [requestId |-> rid, promise |-> p]

MapHas(tbl, rid) == \E i \in DOMAIN tbl : tbl[i].requestId = rid

MapGet(tbl, rid) == tbl[CHOOSE i \in DOMAIN tbl : tbl[i].requestId = rid].promise

\* Map.set: a key already present keeps its position and takes the new value
MapSet(tbl, rid, p) ==
    IF MapHas(tbl, rid)
    THEN [i \in DOMAIN tbl |-> IF tbl[i].requestId = rid THEN Entry(rid, p) ELSE tbl[i]]
    ELSE Append(tbl, Entry(rid, p))

MapDelete(tbl, rid) == SelectSeq(tbl, LAMBDA e : e.requestId # rid)

\* A promise identity no timer and no suspended turn refers to
FreePromise ==
    LET used == {timers[i].promise : i \in DOMAIN timers}
                \cup {promise[t] : t \in {u \in Turns : pc[u] = "approval"}}
    IN  CHOOSE p \in Promises \ used : \A q \in Promises \ used : p <= q

(* The part of the state a promise resolution changes *)
Sched == [pc |-> pc, approved |-> approved, decidedBy |-> decidedBy, microtasks |-> microtasks]

\* resolve(v) of promise p: the turn awaiting p, if the promise is not yet
\* resolved, gets v and its continuation is queued; otherwise nothing happens
ResolvePromise(st, p, v, by) ==
    LET ts == {t \in Turns : st.pc[t] = "approval" /\ promise[t] = p}
    IN  IF ts = {} THEN st
        ELSE LET t == CHOOSE u \in ts : TRUE
             IN  [pc |-> [st.pc EXCEPT ![t] = "resumed"],
                  approved |-> [st.approved EXCEPT ![t] = v],
                  decidedBy |-> [st.decidedBy EXCEPT ![t] = by],
                  microtasks |-> Append(st.microtasks, t)]

\* pendingApprovals.forEach(pending => pending.resolve(false)), in Map order
RECURSIVE ResolveAll(_, _)
ResolveAll(st, tbl) ==
    IF tbl = <<>> THEN st
    ELSE ResolveAll(ResolvePromise(st, Head(tbl).promise, FALSE, "reset"), Tail(tbl))

SetSched(st) ==
    /\ pc' = st.pc
    /\ approved' = st.approved
    /\ decidedBy' = st.decidedBy
    /\ microtasks' = st.microtasks

----------------------------------------------------------------------------
(* executeToolCalls: the for loop from the head of cs up to its next await. *)
(* gen holds the Math.random draws for the calls that carry no id.          *)

ToolCallId(c, g) == IF c.id # NoId THEN c.id ELSE g

Dispatch_AllAtOnce(cs, hist, evs, gen) ==
    LET known == SelectSeq(cs, LAMBDA c : getToolByName(c.name) # NoId)
    IN  IF known = <<>>
        THEN [stop |-> "end", calls |-> <<>>, hist |-> hist, evs |-> evs, callId |-> NoId]
        ELSE [stop |-> IF requiresApproval(Head(known).name) THEN "approval" ELSE "exec",
              calls |-> known, hist |-> hist,
              evs |-> evs \o [i \in 1..Len(known) |->
                                 Ev("tool_call", known[i].name, known[i].arguments)],
              callId |-> ToolCallId(Head(known), gen[Len(known)])]

Dispatch_StopAtUnknown(cs, hist, evs, gen) ==
    IF cs = <<>>
    THEN [stop |-> "end", calls |-> <<>>, hist |-> hist, evs |-> evs, callId |-> NoId]
    ELSE LET c == Head(cs)
             id == ToolCallId(c, gen[Len(cs)])
         IN  IF getToolByName(c.name) = NoId
             THEN [stop |-> "end", calls |-> <<>>,
                   hist |-> Append(hist, Msg("tool", UnknownToolResult(c.name), id, <<>>)),
                   evs |-> Append(evs, Ev("error", NoId, UnknownToolError(c.name))),
                   callId |-> NoId]
             ELSE [stop |-> IF requiresApproval(c.name) THEN "approval" ELSE "exec",
                   calls |-> cs, hist |-> hist,
                   evs |-> Append(evs, Ev("tool_call", c.name, c.arguments)),
                   callId |-> id]

RECURSIVE Dispatch(_, _, _, _)
Dispatch(cs, hist, evs, gen) ==
    IF cs = <<>>
    THEN [stop |-> "end", calls |-> <<>>, hist |-> hist, evs |-> evs, callId |-> NoId]
    ELSE LET c == Head(cs)
             id == ToolCallId(c, gen[Len(cs)])
         IN  IF getToolByName(c.name) = NoId
             THEN Dispatch(Tail(cs),
                           Append(hist, Msg("tool", UnknownToolResult(c.name), id, <<>>)),
                           Append(evs, Ev("error", NoId, UnknownToolError(c.name))),
                           gen)
             ELSE [stop |-> IF requiresApproval(c.name) THEN "approval" ELSE "exec",
                   calls |-> cs, hist |-> hist,
                   evs |-> Append(evs, Ev("tool_call", c.name, c.arguments)),
                   callId |-> id]

\* The state in which turn t is left at the await that Dispatch stopped at:
\* requestApproval (lines 292-312), tool.execute (line 260), or the end of
\* the batch, after which runAgentLoop is re-entered in a microtask.
Park(t, d, st) ==
    LET st0 == [st EXCEPT !.approved[t] = FALSE, !.decidedBy[t] = "none"]
    IN
    /\ conversationHistory' = d.hist
    /\ calls' = [calls EXCEPT ![t] = d.calls]
    /\ callId' = [callId EXCEPT ![t] = d.callId]
    /\ CASE d.stop = "approval" ->
              /\ \E rid \in RequestIds :
                    LET p == FreePromise
                    IN  /\ pendingApprovals' = MapSet(pendingApprovals, rid, p)
                        /\ timers' = Append(timers, Entry(rid, p))
                        /\ promise' = [promise EXCEPT ![t] = p]
                        /\ out' = Append(d.evs, Ev("approval_request", Head(d.calls).name, rid))
              /\ SetSched([st0 EXCEPT !.pc[t] = "approval"])
              /\ asked' = TRUE
         [] d.stop = "exec" ->
              /\ out' = d.evs
              /\ SetSched([st0 EXCEPT !.pc[t] = "exec"])
              /\ promise' = [promise EXCEPT ![t] = 0]
              /\ UNCHANGED <<pendingApprovals, timers, asked>>
         [] d.stop = "end" ->
              /\ out' = d.evs
              /\ SetSched([st0 EXCEPT !.pc[t] = "batch_done",
                                      !.microtasks = Append(st.microtasks, t)])
              /\ promise' = [promise EXCEPT ![t] = 0]
              /\ UNCHANGED <<pendingApprovals, timers, asked>>

DispatchAndPark(t, cs, hist, evs, st) ==
    \E gen \in [1..Len(cs) -> GenIds] : Park(t, Dispatch(cs, hist, evs, gen), st)

----------------------------------------------------------------------------
(* runAgentLoop, lines 85-104: the iteration check, and the call of the     *)
(* inference capability                                                     *)

LoopLimitReached_Late(count) == count > maxLoopIterations

LoopLimitReached(count) == count >= maxLoopIterations

EnterLoop(t, count, evs, st) ==
    IF LoopLimitReached(count)
    THEN /\ currentLoopCount' = count
         /\ out' = evs \o <<Ev("error", NoId, MaxIterError),
                            Ev("agent_response", NoId, MaxIterText)>>
         /\ SetSched([st EXCEPT !.pc[t] = "done"])
         /\ maxMsgs' = [maxMsgs EXCEPT ![t] = @ + 1]
         /\ UNCHANGED inferences
    ELSE /\ currentLoopCount' = count + 1
         /\ out' = Append(evs, Ev("agent_thinking", NoId, <<"Thinking...">>))
         /\ SetSched([st EXCEPT !.pc[t] = "llm"])
         /\ inferences' = [inferences EXCEPT ![t] = @ + 1]
         /\ UNCHANGED maxMsgs

(* The environment of a run.                                                *)
(* llm: the inference capability either asks for a tool in every answer     *)
(* ("looping"), or gives one fixed first answer in every turn and a final   *)
(* answer afterwards.                                                       *)
(* client: a "serial" client sends a message only when no turn is in        *)
(* progress, resets at most once between two messages, and may disconnect;  *)
(* an "overlapping" client also sends a message while one turn is in        *)
(* progress, never resets or disconnects, meets no throwing tool and is run *)
(* against the single-call first answers only.                              *)
Looping == [first |-> ReadBatch, loop |-> TRUE]

LLMs == {Looping} \cup {[first |-> r, loop |-> FALSE] : r \in Responses}

LLMAnswers(t) ==
    IF llm.loop THEN {ReadBatch}
    ELSE IF inferences[t] = 1 THEN {llm.first} ELSE {FinalAnswer}

\* a tool throws only in the runs of a serial client with a model that stops
ToolOutcomes == IF llm.loop \/ client # "serial" THEN {TRUE} ELSE BOOLEAN

Clients(l) ==
    IF l.loop \/ l.first \notin {ReadBatch, WriteBatch}
    THEN {"serial"} ELSE {"serial", "overlapping"}

Step(op, t, id, flag) == [op |-> op, turn |-> t, id |-> id, flag |-> flag]

\* handleUserMessage(t) has been called and has not returned
InProgress(t) == pc[t] \notin {"unused", "done", "failed"}

\* No continuation is queued: the next event of the event loop may be handled
Quiet == microtasks = <<>>

----------------------------------------------------------------------------
\* the state after construction, but for the text handed to the parser
Constructed ==
    /\ conversationHistory = <<>>
    /\ systemPrompt = InitialSystemPrompt
    /\ currentLoopCount = 0
    /\ pendingApprovals = <<>>
    /\ timers = <<>>
    /\ microtasks = <<>>
    /\ pc = [t \in Turns |-> "unused"]
    /\ calls = [t \in Turns |-> <<>>]
    /\ callId = [t \in Turns |-> NoId]
    /\ promise = [t \in Turns |-> 0]
    /\ approved = [t \in Turns |-> FALSE]
    /\ decidedBy = [t \in Turns |-> "none"]
    /\ wsOpen = TRUE
    /\ llm \in LLMs
    /\ client \in Clients(llm)
    /\ resetSent = FALSE
    /\ out = <<>>
    /\ last = Step("init", 0, NoId, FALSE)
    /\ inferences = [t \in Turns |-> 0]
    /\ maxMsgs = [t \in Turns |-> 0]
    /\ asked = FALSE
    /\ interrupted = FALSE
    /\ totalInputTokens = 0
    /\ totalOutputTokens = 0
    /\ sessThinking = [x \in Sessions |-> FALSE]
    /\ sessHistory = [x \in Sessions |-> 0]
    /\ sessCumulative = [x \in Sessions |-> 0]
    /\ sessOwn = [x \in Sessions |-> 0]
    /\ sessExpected = [x \in Sessions |-> 0]
    /\ parsed = NotParsed
    /\ streamingResponse = <<>>
    /\ isFirstToken = [t \in Turns |-> TRUE]
    /\ streamPc = [t \in Turns |-> "idle"]
    /\ increments = [t \in Turns |-> <<>>]
    /\ streamContent = [t \in Turns |-> <<>>]
    /\ completion = [t \in Turns |-> <<>>]
    /\ uiPending = NoId
    /\ uiRequests = 0

Init == Constructed /\ modelText = <<>>

(* A user message arrives: handleUserMessage up to the await of getCompletion. *)
(* The front ends do not wait for the previous call to return.                 *)
HandleUserMessage_Prepends(t) ==
    /\ Quiet /\ wsOpen
    /\ pc[t] = "unused"
    /\ \A u \in Turns : u < t => pc[u] # "unused"
    /\ Cardinality({u \in Turns : InProgress(u)})
          <= (IF client = "serial" THEN 0 ELSE 1)
    /\ conversationHistory' = <<Msg("user", UserText(t), NoId, <<>>)>> \o conversationHistory
    /\ EnterLoop(t, 0, <<Ev("user_message_received", NoId, UserText(t))>>, Sched)
    /\ interrupted' = FALSE
    /\ resetSent' = FALSE
    /\ last' = Step("handleUserMessage", t, NoId, interrupted)
    /\ UNCHANGED <<systemPrompt, pendingApprovals, timers, calls, callId, promise,
                   wsOpen, asked, envVars>>

HandleUserMessage_KeepsCount(t) ==
    /\ Quiet /\ wsOpen
    /\ pc[t] = "unused"
    /\ \A u \in Turns : u < t => pc[u] # "unused"
    /\ Cardinality({u \in Turns : InProgress(u)})
          <= (IF client = "serial" THEN 0 ELSE 1)
    /\ conversationHistory' = Append(conversationHistory, Msg("user", UserText(t), NoId, <<>>))
    /\ EnterLoop(t, currentLoopCount, <<Ev("user_message_received", NoId, UserText(t))>>, Sched)
    /\ interrupted' = FALSE
    /\ resetSent' = FALSE
    /\ last' = Step("handleUserMessage", t, NoId, interrupted)
    /\ UNCHANGED <<systemPrompt, pendingApprovals, timers, calls, callId, promise,
                   wsOpen, asked, envVars>>

(* handleUserMessage(content), lines 58-72 *)
HandleUserMessage(t) ==
    /\ Quiet /\ wsOpen
    /\ pc[t] = "unused"
    /\ \A u \in Turns : u < t => pc[u] # "unused"
    /\ Cardinality({u \in Turns : InProgress(u)})
          <= (IF client = "serial" THEN 0 ELSE 1)
    /\ conversationHistory' = Append(conversationHistory, Msg("user", UserText(t), NoId, <<>>))
    /\ EnterLoop(t, 0, <<Ev("user_message_received", NoId, UserText(t))>>, Sched)
    /\ interrupted' = FALSE
    /\ resetSent' = FALSE
    /\ last' = Step("handleUserMessage", t, NoId, interrupted)
    /\ UNCHANGED <<systemPrompt, pendingApprovals, timers, calls, callId, promise,
                   wsOpen, asked, envVars>>

ClearedHistory_KeepFirst(h) == IF h = <<>> THEN <<>> ELSE <<Head(h)>>

\* `this.conversationHistory = []`, line 75
ClearedHistory(h) == <<>>

(* reset() *)
Reset ==
    /\ Quiet /\ wsOpen
    /\ client = "serial" /\ ~resetSent
    /\ resetSent' = TRUE
    /\ conversationHistory' = ClearedHistory(conversationHistory)
    /\ currentLoopCount' = 0
    /\ SetSched(ResolveAll(Sched, pendingApprovals))
    /\ pendingApprovals' = <<>>
    /\ interrupted' = (interrupted \/ ResolveAll(Sched, pendingApprovals).microtasks # <<>>)
    /\ out' = <<>>
    /\ last' = Step("reset", 0, NoId, \A t \in Turns : ~InProgress(t))
    /\ UNCHANGED <<systemPrompt, timers, calls, callId, promise, wsOpen, inferences,
                   maxMsgs, asked, envVars>>

HandleApproval_OldestOnMiss(rid, a) ==
    /\ Quiet /\ wsOpen
    /\ asked
    /\ IF pendingApprovals # <<>>
       THEN LET e == IF MapHas(pendingApprovals, rid)
                     THEN Entry(rid, MapGet(pendingApprovals, rid))
                     ELSE Head(pendingApprovals)
            IN  /\ SetSched(ResolvePromise(Sched, e.promise, a, "approval"))
                /\ pendingApprovals' = MapDelete(pendingApprovals, e.requestId)
       ELSE UNCHANGED <<pc, approved, decidedBy, microtasks, pendingApprovals>>
    /\ out' = <<>>
    /\ last' = Step("handleApproval", 0, NoId, MapHas(pendingApprovals, rid))
    /\ UNCHANGED <<conversationHistory, systemPrompt, currentLoopCount, timers, calls,
                   callId, promise, wsOpen, resetSent, inferences, maxMsgs, asked,
                   interrupted, envVars>>

(* handleApproval(requestId, approved) *)
HandleApproval(rid, a) ==
    /\ Quiet /\ wsOpen
    /\ asked
    /\ IF MapHas(pendingApprovals, rid)
       THEN /\ SetSched(ResolvePromise(Sched, MapGet(pendingApprovals, rid), a, "approval"))
            /\ pendingApprovals' = MapDelete(pendingApprovals, rid)
       ELSE UNCHANGED <<pc, approved, decidedBy, microtasks, pendingApprovals>>
    /\ out' = <<>>
    \* last.flag: the id was found in the table
    /\ last' = Step("handleApproval", 0, NoId, MapHas(pendingApprovals, rid))
    /\ UNCHANGED <<conversationHistory, systemPrompt, currentLoopCount, timers, calls,
                   callId, promise, wsOpen, resetSent, inferences, maxMsgs, asked,
                   interrupted, envVars>>

(* The setTimeout callback of the oldest request fires *)
ApprovalTimeout ==
    /\ Quiet
    /\ timers # <<>>
    /\ LET e == Head(timers)
       IN  /\ IF MapHas(pendingApprovals, e.requestId)
              THEN /\ pendingApprovals' = MapDelete(pendingApprovals, e.requestId)
                   /\ SetSched(ResolvePromise(Sched, e.promise, FALSE, "timeout"))
              ELSE UNCHANGED <<pc, approved, decidedBy, microtasks, pendingApprovals>>
           /\ last' = Step("timeout", 0, NoId, MapHas(pendingApprovals, e.requestId))
    /\ timers' = Tail(timers)
    /\ out' = <<>>
    /\ UNCHANGED <<conversationHistory, systemPrompt, currentLoopCount, calls, callId,
                   promise, wsOpen, resetSent, inferences, maxMsgs, asked, interrupted,
                   envVars>>

(* The client connection closes: the close handler of WebSocketManager *)
Close ==
    /\ Quiet /\ wsOpen
    /\ client = "serial" /\ ~llm.loop
    /\ wsOpen' = FALSE
    /\ out' = <<>>
    /\ last' = Step("close", 0, NoId, FALSE)
    /\ UNCHANGED <<conversationHistory, systemPrompt, currentLoopCount, pendingApprovals,
                   timers, microtasks, pc, calls, callId, promise, approved, decidedBy,
                   resetSent, inferences, maxMsgs, asked, interrupted, envVars>>

TakesToolPath_UnlessResponse(r) == r.tool_calls # <<>> /\ r.response = <<>>

\* `parsedResponse.tool_calls && parsedResponse.tool_calls.length > 0`, line 153
TakesToolPath(r) == r.tool_calls # <<>>

AnswerText_Raw(r) == r.raw

AnswerText_ResponseOnly(r) == r.response

\* the content of the final answer: parsedResponse.response if it is not
\* empty, else the whole text of the model: lines 163-181
AnswerText(r) == IF r.response # <<>> THEN r.response ELSE r.raw

(* getCompletion resolves with r: runAgentLoop lines 131-182 *)
LLMComplete(t) ==
    /\ Quiet
    /\ pc[t] = "llm"
    /\ \E r \in LLMAnswers(t) :
          LET evs == <<Ev("token_stats", NoId, <<>>)>>
                     \o (IF r.thought # <<>> THEN <<Ev("agent_thought", NoId, r.thought)>>
                                             ELSE <<>>)
          IN  IF TakesToolPath(r)
              THEN DispatchAndPark(t, r.tool_calls,
                       Append(conversationHistory,
                              Msg("assistant",
                                  IF r.thought # <<>> THEN r.thought ELSE DefaultThought,
                                  NoId, r.tool_calls)),
                       evs, Sched)
              ELSE LET text == AnswerText(r)
                   IN  /\ out' = Append(evs, Ev("agent_response", NoId, text))
                       /\ conversationHistory' =
                              Append(conversationHistory, Msg("assistant", text, NoId, <<>>))
                       /\ SetSched([Sched EXCEPT !.pc[t] = "done"])
                       /\ UNCHANGED <<pendingApprovals, timers, calls, callId, promise,
                                      asked>>
    /\ last' = Step("llmComplete", t, NoId, FALSE)
    /\ UNCHANGED <<systemPrompt, currentLoopCount, wsOpen, resetSent, inferences,
                   maxMsgs, interrupted, envVars>>

LLMReject_Answers(t) ==
    /\ Quiet
    /\ pc[t] = "llm"
    /\ out' = <<Ev("error", NoId, <<"inference failed">>),
                Ev("agent_response", NoId, <<"inference failed">>)>>
    /\ SetSched([Sched EXCEPT !.pc[t] = "failed"])
    /\ last' = Step("llmReject", t, NoId, FALSE)
    /\ UNCHANGED <<conversationHistory, systemPrompt, currentLoopCount, pendingApprovals,
                   timers, calls, callId, promise, wsOpen, resetSent, inferences,
                   maxMsgs, asked, interrupted, envVars>>

(* getCompletion rejects: the catch of runAgentLoop, lines 183-189 *)
LLMReject(t) ==
    /\ Quiet
    /\ pc[t] = "llm"
    /\ out' = <<Ev("error", NoId, <<"inference failed">>)>>
    /\ SetSched([Sched EXCEPT !.pc[t] = "failed"])
    /\ last' = Step("llmReject", t, NoId, FALSE)
    /\ UNCHANGED <<conversationHistory, systemPrompt, currentLoopCount, pendingApprovals,
                   timers, calls, callId, promise, wsOpen, resetSent, inferences,
                   maxMsgs, asked, interrupted, envVars>>

Denied_Never(a) == FALSE

\* `if (!approved)`, line 241
Denied(a) == ~a

Resume_SilentDenial(t) ==
    /\ microtasks # <<>> /\ Head(microtasks) = t
    /\ pc[t] = "resumed"
    /\ LET st == [Sched EXCEPT !.microtasks = Tail(microtasks)]
           c == Head(calls[t])
       IN  IF Denied(approved[t])
           THEN DispatchAndPark(t, Tail(calls[t]),
                    Append(conversationHistory, Msg("tool", DeniedResult, callId[t], <<>>)),
                    <<>>, st)
           ELSE /\ SetSched([st EXCEPT !.pc[t] = "exec"])
                /\ out' = <<>>
                /\ UNCHANGED <<conversationHistory, pendingApprovals, timers, calls,
                               callId, promise, asked>>
    /\ last' = Step("resume", t, Head(calls[t]).name, approved[t])
    /\ UNCHANGED <<systemPrompt, currentLoopCount, wsOpen, resetSent, inferences,
                   maxMsgs, interrupted, envVars>>

(* The continuation of `await this.requestApproval(...)`: lines 241-260 *)
Resume(t) ==
    /\ microtasks # <<>> /\ Head(microtasks) = t
    /\ pc[t] = "resumed"
    /\ LET st == [Sched EXCEPT !.microtasks = Tail(microtasks)]
           c == Head(calls[t])
       IN  IF Denied(approved[t])
           THEN DispatchAndPark(t, Tail(calls[t]),
                    Append(conversationHistory, Msg("tool", DeniedResult, callId[t], <<>>)),
                    <<Ev("tool_result", c.name, DeniedResult)>>, st)
           ELSE /\ SetSched([st EXCEPT !.pc[t] = "exec"])
                /\ out' = <<>>
                /\ UNCHANGED <<conversationHistory, pendingApprovals, timers, calls,
                               callId, promise, asked>>
    /\ last' = Step("resume", t, Head(calls[t]).name, approved[t])
    /\ UNCHANGED <<systemPrompt, currentLoopCount, wsOpen, resetSent, inferences,
                   maxMsgs, interrupted, envVars>>

ExecComplete_Propagates(t) ==
    /\ Quiet
    /\ pc[t] = "exec"
    /\ \E ok \in ToolOutcomes :
          LET c == Head(calls[t])
          IN  /\ IF ok
                 THEN DispatchAndPark(t, Tail(calls[t]),
                          Append(conversationHistory,
                                 Msg("tool", OkResult(c.name), callId[t], <<>>)),
                          <<Ev("tool_result", c.name, OkResult(c.name))>>, Sched)
                 ELSE /\ out' = <<Ev("error", NoId, <<"error thrown by ", c.name>>)>>
                      /\ SetSched([Sched EXCEPT !.pc[t] = "failed"])
                      /\ UNCHANGED <<conversationHistory, pendingApprovals, timers, calls,
                                     callId, promise, asked>>
              /\ last' = Step("execComplete", t, c.name, ok)
    /\ UNCHANGED <<systemPrompt, currentLoopCount, wsOpen, resetSent, inferences,
                   maxMsgs, interrupted, envVars>>

(* tool.execute settles: lines 260-288, then the loop goes on *)
ExecComplete(t) ==
    /\ Quiet
    /\ pc[t] = "exec"
    /\ \E ok \in ToolOutcomes :
          LET c == Head(calls[t])
              result == IF ok THEN OkResult(c.name) ELSE ThrownResult(c.name)
          IN  /\ DispatchAndPark(t, Tail(calls[t]),
                     Append(conversationHistory, Msg("tool", result, callId[t], <<>>)),
                     <<Ev("tool_result", c.name, result)>>, Sched)
              \* last.id: the tool; last.flag: execute resolved (did not throw)
              /\ last' = Step("execComplete", t, c.name, ok)
    /\ UNCHANGED <<systemPrompt, currentLoopCount, wsOpen, resetSent, inferences,
                   maxMsgs, interrupted, envVars>>

LoopAgain_RecordsExhaustion(t) ==
    /\ microtasks # <<>> /\ Head(microtasks) = t
    /\ pc[t] = "batch_done"
    /\ EnterLoop(t, currentLoopCount, <<>>, [Sched EXCEPT !.microtasks = Tail(microtasks)])
    /\ last' = Step("loopAgain", t, NoId, FALSE)
    /\ conversationHistory' =
          IF LoopLimitReached(currentLoopCount)
          THEN Append(conversationHistory, Msg("assistant", MaxIterText, NoId, <<>>))
          ELSE conversationHistory
    /\ UNCHANGED <<systemPrompt, pendingApprovals, timers, calls,
                   callId, promise, wsOpen, resetSent, asked, interrupted, envVars>>

(* executeToolCalls has returned: `await this.runAgentLoop()`, line 162 *)
LoopAgain(t) ==
    /\ microtasks # <<>> /\ Head(microtasks) = t
    /\ pc[t] = "batch_done"
    /\ EnterLoop(t, currentLoopCount, <<>>, [Sched EXCEPT !.microtasks = Tail(microtasks)])
    /\ last' = Step("loopAgain", t, NoId, FALSE)
    /\ UNCHANGED <<conversationHistory, systemPrompt, pendingApprovals, timers, calls,
                   callId, promise, wsOpen, resetSent, asked, interrupted, envVars>>

Next ==
    \/ \E t \in Turns : HandleUserMessage(t)
    \/ Reset
    \/ \E rid \in RequestIds \cup UnknownIds, a \in BOOLEAN : HandleApproval(rid, a)
    \/ ApprovalTimeout
    \/ Close
    \/ \E t \in Turns : LLMComplete(t)
    \/ \E t \in Turns : LLMReject(t)
    \/ \E t \in Turns : Resume(t)
    \/ \E t \in Turns : ExecComplete(t)
    \/ \E t \in Turns : LoopAgain(t)

Spec == Init /\ [][Next]_vars

TypeOK ==
    /\ currentLoopCount \in Nat
    /\ \A t \in Turns : pc[t] \in {"unused", "llm", "approval", "resumed", "exec",
                                   "batch_done", "done", "failed"}

----------------------------------------------------------------------------
(* Several sessions of one server.  WebSocketManager creates one Agent per  *)
(* connection and gives every Agent the same LLMService; a session is kept  *)
(* here as what reaches that instance: its calls of getCompletion, getToken- *)
(* Stats and resetTokenStats.  The session sends its messages one at a time. *)

agentVars == <<conversationHistory, systemPrompt, currentLoopCount, pendingApprovals,
               timers, microtasks, pc, calls, callId, promise, approved, decidedBy,
               wsOpen, llm, client, resetSent, out, last, inferences, maxMsgs, asked,
               interrupted, parserVars, uiVars>>

\* estimateTokens of the prompt: the system prompt and one unit per message
InputTokenCount(n) == 1 + n

(* handleUserMessage of session x up to the await inside getCompletion *)
SessUserMessage(x) ==
    /\ ~sessThinking[x]
    /\ totalInputTokens < MaxTokens /\ sessOwn[x] < MaxTokens
    /\ sessHistory' = [sessHistory EXCEPT ![x] = @ + 1]
    /\ totalInputTokens' = totalInputTokens + InputTokenCount(sessHistory[x] + 1)
    /\ sessOwn' = [sessOwn EXCEPT ![x] = @ + InputTokenCount(sessHistory[x] + 1)]
    /\ sessThinking' = [sessThinking EXCEPT ![x] = TRUE]
    /\ UNCHANGED <<totalOutputTokens, sessCumulative, sessExpected, agentVars, streamVars>>

(* the completion of session x arrives: token_stats is sent, the answer recorded *)
SessCompletion(x) ==
    /\ sessThinking[x]
    /\ totalOutputTokens' = totalOutputTokens + 1
    /\ sessOwn' = [sessOwn EXCEPT ![x] = @ + 1]
    /\ sessCumulative' = [sessCumulative EXCEPT ![x] = totalInputTokens + totalOutputTokens']
    /\ sessExpected' = [sessExpected EXCEPT ![x] = sessOwn'[x]]
    /\ sessHistory' = [sessHistory EXCEPT ![x] = @ + 1]
    /\ sessThinking' = [sessThinking EXCEPT ![x] = FALSE]
    /\ UNCHANGED <<totalInputTokens, agentVars, streamVars>>

(* reset() of session x *)
SessReset(x) ==
    /\ sessHistory' = [sessHistory EXCEPT ![x] = 0]
    /\ totalInputTokens' = 0
    /\ totalOutputTokens' = 0
    /\ sessOwn' = [sessOwn EXCEPT ![x] = 0]
    /\ UNCHANGED <<sessThinking, sessCumulative, sessExpected, agentVars, streamVars>>

SessNext ==
    \/ \E x \in Sessions : SessUserMessage(x)
    \/ \E x \in Sessions : SessCompletion(x)
    \/ \E x \in Sessions : SessReset(x)

\* the manager has been constructed; no connection has sent anything
SessInit == Init /\ llm = Looping

SessionsSpec == SessInit /\ [][SessNext]_vars

----------------------------------------------------------------------------
(* The parser applied to every model output of up to MaxTextLen tokens *)

Texts == UNION {[1..n -> TextTokens] : n \in 0..MaxTextLen}

ParserInit ==
    /\ Constructed /\ llm = Looping
    /\ modelText \in Texts

ParseResponse ==
    /\ parsed = NotParsed
    /\ parsed' = parseResponse(modelText)
    /\ UNCHANGED <<modelText, sessVars, conversationHistory, systemPrompt, currentLoopCount,
                   pendingApprovals, timers, microtasks, pc, calls, callId, promise,
                   approved, decidedBy, wsOpen, llm, client, resetSent, out, last,
                   inferences, maxMsgs, asked, interrupted, streamVars, uiVars>>

ParserNext == ParseResponse

ParserSpec == ParserInit /\ [][ParserNext]_vars

----------------------------------------------------------------------------
(* The relay of streamed increments: the onToken callback of runAgentLoop.  *)
(* One inference call per turn; an implementation of ILLMService passes the *)
(* text it generates to onToken in increments (OpenRouterLLMService: the    *)
(* whole content as one increment) and resolves with the whole text.        *)

StreamTokens == {"x", "y"}

\* the run of the streaming sub-model: a model that stops, either client
StreamInit == Init /\ llm = [first |-> ReadBatch, loop |-> FALSE]

(* runAgentLoop up to the await of getCompletion, lines 100-109 *)
StreamStart(t) ==
    /\ streamPc[t] = "idle"
    /\ \A u \in Turns : u < t => streamPc[u] # "idle"
    /\ (client = "serial") => \A u \in Turns : streamPc[u] # "running"
    /\ streamingResponse' = <<>>
    /\ isFirstToken' = [isFirstToken EXCEPT ![t] = TRUE]
    /\ streamPc' = [streamPc EXCEPT ![t] = "running"]
    /\ UNCHANGED <<increments, streamContent, completion, agentVars, sessVars>>

(* the service calls onToken(tok): lines 113-128 *)
StreamToken(t, tok) ==
    /\ streamPc[t] = "running"
    /\ Len(increments[t]) < MaxIncrements
    /\ isFirstToken' = [isFirstToken EXCEPT ![t] = FALSE]
    /\ streamingResponse' = Append(streamingResponse, tok)
    /\ streamContent' = [streamContent EXCEPT ![t] = streamingResponse']
    /\ increments' = [increments EXCEPT ![t] = Append(@, tok)]
    /\ UNCHANGED <<streamPc, completion, agentVars, sessVars>>

(* getCompletion resolves with the text generated: lines 109, 144 *)
StreamReturn(t) ==
    /\ streamPc[t] = "running"
    /\ completion' = [completion EXCEPT ![t] = increments[t]]
    /\ streamPc' = [streamPc EXCEPT ![t] = "returned"]
    /\ UNCHANGED <<streamingResponse, isFirstToken, increments, streamContent,
                   agentVars, sessVars>>

StreamNext ==
    \/ \E t \in Turns : StreamStart(t)
    \/ \E t \in Turns, tok \in StreamTokens : StreamToken(t, tok)
    \/ \E t \in Turns : StreamReturn(t)

StreamSpec == StreamInit /\ [][StreamNext]_vars

----------------------------------------------------------------------------
(* The approval prompt of the client App and the pending table of the       *)
(* agent it talks to.                                                       *)

\* what the approval protocol leaves alone
uiFrame == <<conversationHistory, systemPrompt, currentLoopCount, microtasks, pc, calls,
             callId, promise, approved, decidedBy, wsOpen, llm, client, resetSent, out,
             last, inferences, maxMsgs, asked, interrupted, sessVars, parserVars,
             streamVars>>

\* the run of the App sub-model: a model that stops, either client
UiInit == Init /\ llm = [first |-> WriteBatch, loop |-> FALSE]

(* requestApproval creates a request with the id rid; the App receives the  *)
(* approval_request event: App.handleServerMessage                          *)
UiRequest(rid) ==
    /\ uiRequests < MaxRequests
    /\ (client = "serial") => pendingApprovals = <<>>
    /\ pendingApprovals' = MapSet(pendingApprovals, rid, uiRequests + 1)
    /\ timers' = Append(timers, Entry(rid, uiRequests + 1))
    /\ uiPending' = rid
    /\ uiRequests' = uiRequests + 1
    /\ UNCHANGED uiFrame

(* the user answers the prompt: App.handleApproval, then Agent.handleApproval *)
UiDecide ==
    /\ uiPending # NoId
    /\ pendingApprovals' = MapDelete(pendingApprovals, uiPending)
    /\ uiPending' = NoId
    /\ UNCHANGED <<timers, uiRequests, uiFrame>>

(* the setTimeout callback of the oldest request fires *)
UiTimeout ==
    /\ timers # <<>>
    /\ pendingApprovals' = MapDelete(pendingApprovals, Head(timers).requestId)
    /\ timers' = Tail(timers)
    /\ UNCHANGED <<uiPending, uiRequests, uiFrame>>

UiNext ==
    \/ \E rid \in RequestIds : UiRequest(rid)
    \/ UiDecide
    \/ UiTimeout

UiSpec == UiInit /\ [][UiNext]_vars

----------------------------------------------------------------------------
(* The frames that reach the message handler of WebSocketManager besides    *)
(* user messages and approvals.                                             *)

InvalidFormat == <<"Invalid message format">>

\* what a frame that is not handed to the agent leaves alone
wsFrame == <<conversationHistory, systemPrompt, currentLoopCount, pendingApprovals,
             timers, microtasks, pc, calls, callId, promise, approved, decidedBy,
             resetSent, inferences, maxMsgs, asked, interrupted, envVars>>

BadFrame_Closes ==
    /\ Quiet /\ wsOpen
    /\ out' = <<Ev("error", NoId, InvalidFormat)>>
    /\ last' = Step("badFrame", 0, NoId, FALSE)
    /\ wsOpen' = FALSE
    /\ UNCHANGED wsFrame

(* a frame that is not valid JSON: JSON.parse throws, lines 36-45 *)
BadFrame ==
    /\ Quiet /\ wsOpen
    /\ out' = <<Ev("error", NoId, InvalidFormat)>>
    /\ last' = Step("badFrame", 0, NoId, FALSE)
    /\ UNCHANGED <<wsOpen, wsFrame>>

(* a JSON frame whose type is neither user_message nor approval: the        *)
(* default case of handleMessage, lines 78-79                               *)
UnknownFrame ==
    /\ Quiet /\ wsOpen
    /\ out' = <<>>
    /\ last' = Step("unknownFrame", 0, NoId, FALSE)
    /\ UNCHANGED <<wsOpen, wsFrame>>

\* the run of the frame sub-model: a model that asks for write_file, a
\* client that sends one message at a time
WsInit ==
    /\ Init
    /\ llm = [first |-> WriteBatch, loop |-> FALSE]
    /\ client = "serial"

WsNext ==
    \/ Next
    \/ BadFrame
    \/ UnknownFrame

WsSpec == WsInit /\ [][WsNext]_vars

----------------------------------------------------------------------------
(* The Agent that takes text commands (packages/server/src/agent.ts): its   *)
(* handleUserMessage looks at the text before it starts a turn.  A text is  *)
(* kept as its characters.                                                  *)

toLowerCase(text) ==
    [i \in DOMAIN text |->
        CASE text[i] = "R" -> "r" [] text[i] = "E" -> "e" [] text[i] = "S" -> "s"
          [] text[i] = "T" -> "t" [] text[i] = "Q" -> "q" [] text[i] = "U" -> "u"
          [] text[i] = "I" -> "i" [] text[i] = "X" -> "x" [] OTHER -> text[i]]

RECURSIVE trimStart(_)
trimStart(text) ==
    IF text # <<>> /\ Head(text) = " " THEN trimStart(Tail(text)) ELSE text

RECURSIVE trimEnd(_)
trimEnd(text) ==
    IF text # <<>> /\ text[Len(text)] = " "
    THEN trimEnd(SubSeq(text, 1, Len(text) - 1)) ELSE text

trim(text) == trimEnd(trimStart(text))

ResetWord == <<"r", "e", "s", "e", "t">>
ExitWord == <<"e", "x", "i", "t">>
QuitWord == <<"q", "u", "i", "t">>

MemoryReset == <<"Memory reset. Conversation history cleared.">>
Goodbye == <<"Goodbye! Exiting...">>

\* the texts a client sends: the commands, plain or in capitals with blanks
\* around them, and texts that are no command
ResetTexts == {ResetWord, <<" ", "R", "e", "S", "E", "T", " ">>}
ExitTexts == {<<"E", "x", "i", "t", " ">>, <<" ", "Q", "U", "I", "T">>}
PlainTexts == {<<"h", "i">>, <<"r", "e", "s", "e", "t", " ", "i", "t">>}
UserContents == ResetTexts \cup ExitTexts \cup PlainTexts

CommandOf_NoTrim(content) == toLowerCase(content)

CommandOf_NoLowerCase(content) == trim(content)

\* `content.toLowerCase().trim()`, lines 41 and 50
CommandOf(content) == trim(toLowerCase(content))

(* handleUserMessage(content), agent.ts lines 40-70, up to its return or to *)
(* the await of getCompletion                                               *)
HandleTextMessage(t, content) ==
    /\ Quiet /\ wsOpen
    /\ last' = Step("handleTextMessage", t, content, interrupted)
    /\ IF CommandOf(content) = ResetWord
       THEN /\ t = 1 /\ ~resetSent
            /\ resetSent' = TRUE
            /\ conversationHistory' = ClearedHistory(conversationHistory)
            /\ currentLoopCount' = 0
            /\ SetSched(ResolveAll(Sched, pendingApprovals))
            /\ pendingApprovals' = <<>>
            /\ interrupted' = (interrupted
                                  \/ ResolveAll(Sched, pendingApprovals).microtasks # <<>>)
            /\ out' = <<Ev("agent_response", NoId, MemoryReset)>>
            /\ UNCHANGED <<systemPrompt, timers, calls, callId, promise, wsOpen,
                           inferences, maxMsgs, asked, envVars>>
       ELSE IF CommandOf(content) \in {ExitWord, QuitWord}
       THEN /\ t = 1
            /\ out' = <<Ev("agent_response", NoId, Goodbye)>>
            /\ UNCHANGED <<wsOpen, wsFrame>>
       ELSE /\ pc[t] = "unused"
            /\ \A u \in Turns : u < t => pc[u] # "unused"
            /\ Cardinality({u \in Turns : InProgress(u)})
                  <= (IF client = "serial" THEN 0 ELSE 1)
            /\ conversationHistory' =
                   Append(conversationHistory, Msg("user", content, NoId, <<>>))
            /\ EnterLoop(t, 0, <<Ev("user_message_received", NoId, content)>>, Sched)
            /\ interrupted' = FALSE
            /\ resetSent' = FALSE
            /\ UNCHANGED <<systemPrompt, pendingApprovals, timers, calls, callId,
                           promise, wsOpen, asked, envVars>>

\* the run of the Agent with text commands: a model that asks for
\* write_file and does not fail, a client that starts one turn at a time,
\* sends reset at most once between two turns and stays connected
CmdInit ==
    /\ Init
    /\ llm = [first |-> WriteBatch, loop |-> FALSE]
    /\ client = "serial"

CmdNext ==
    \/ \E t \in Turns, content \in UserContents : HandleTextMessage(t, content)
    \/ \E rid \in RequestIds \cup UnknownIds, a \in BOOLEAN : HandleApproval(rid, a)
    \/ ApprovalTimeout
    \/ \E t \in Turns : LLMComplete(t)
    \/ \E t \in Turns : Resume(t)
    \/ \E t \in Turns : ExecComplete(t)
    \/ \E t \in Turns : LoopAgain(t)

CmdSpec == CmdInit /\ [][CmdNext]_vars

(* The timers fire, and queued continuations run: the event loop of the     *)
(* runtime never holds back a due timer or a microtask.                     *)
FairSpec ==
    /\ Init /\ [][Next]_vars
    /\ WF_vars(ApprovalTimeout)
    /\ \A t \in Turns : WF_vars(Resume(t)) /\ WF_vars(LoopAgain(t))

(* In addition every inference call and every tool execution settles.      *)
FairTurns ==
    /\ FairSpec
    /\ \A t \in Turns : /\ WF_vars(LLMComplete(t) \/ LLMReject(t))
                         /\ WF_vars(ExecComplete(t))

----------------------------------------------------------------------------
(* Properties *)

\* The turn t awaits an approval whose timer has not fired yet
HasTimer(t) == \E i \in DOMAIN timers : timers[i].promise = promise[t]

\* The requestId of the request turn t awaits (the const of requestApproval)
RequestIdOf(t) ==
    timers[CHOOSE i \in DOMAIN timers : timers[i].promise = promise[t]].requestId

\* C1: a tool that requires approval is being executed only when the approval
\* request made for that call was answered with approved = true; and the
\* continuation that received approved = false has emitted the tool_result
\* denial for that tool, recorded the denial, and has not called execute.
C1_ExecuteOnlyAfterApproval ==
    /\ \A t \in Turns :
          (pc[t] = "exec" /\ requiresApproval(Head(calls[t]).name))
              => (approved[t] /\ decidedBy[t] = "approval")
    /\ (last.op = "resume" /\ ~last.flag)
          => /\ out # <<>> /\ Head(out) = Ev("tool_result", last.id, DeniedResult)
             /\ pc[last.turn] # "exec"
             /\ conversationHistory # <<>>
             /\ conversationHistory[Len(conversationHistory)].content = DeniedResult

\* One turn executes write_file after its approval while the other has just
\* been denied
C1_Witness ==
    \E t \in Turns :
        /\ pc[t] = "exec" /\ requiresApproval(Head(calls[t]).name) /\ approved[t]
        /\ last.op = "resume" /\ last.turn # t /\ ~last.flag

\* C2: the iteration counter is always between 0 and 10, and a loop entry
\* that finds it at the maximum ends the turn without incrementing it.
C2_LoopCountBounded ==
    /\ currentLoopCount \in 0..maxLoopIterations
    /\ (last.op = "loopAgain" /\ pc[last.turn] = "done")
          => (currentLoopCount = maxLoopIterations /\ maxMsgs[last.turn] = 1)

C2_Witness ==
    /\ last.op = "loopAgain" /\ pc[last.turn] = "done"
    /\ currentLoopCount = maxLoopIterations

\* C3: no turn makes more than 10 calls of the inference capability, whatever
\* commands arrive while it runs.
C3_AtMostTenInferences == \A t \in Turns : inferences[t] <= maxLoopIterations

\* C4: every approval request is eventually resolved: a turn suspended on an
\* approval eventually leaves that suspension (at the latest when the
\* request's timer fires).
C4_EveryRequestResolved ==
    \A t \in Turns : (pc[t] = "approval") ~> (pc[t] # "approval")

\* C5: the first of handleApproval(id, a), the timeout of the request and a
\* reset that occurs for a live request resolves it with that event's
\* decision and leaves the id absent from the table; a decision once
\* delivered is not replaced.
C5_FirstEventWins ==
    [][\A t \in Turns :
          /\ (pc[t] = "approval" /\ HasTimer(t)) =>
                /\ \A a \in BOOLEAN :
                      HandleApproval(RequestIdOf(t), a) =>
                          /\ pc'[t] = "resumed" /\ approved'[t] = a
                          /\ ~MapHas(pendingApprovals', RequestIdOf(t))
                /\ (ApprovalTimeout /\ Head(timers).promise = promise[t]) =>
                      /\ pc'[t] = "resumed" /\ ~approved'[t]
                      /\ ~MapHas(pendingApprovals', RequestIdOf(t))
                /\ Reset =>
                      /\ pc'[t] = "resumed" /\ ~approved'[t]
                      /\ ~MapHas(pendingApprovals', RequestIdOf(t))
          /\ (pc[t] = "resumed" /\ pc'[t] = "resumed") => approved'[t] = approved[t]
      ]_vars

\* C6: handleApproval with a requestId that is absent from the pending table
\* (never issued, or already resolved) changes nothing: no request is
\* resolved, the table, the history and the counter stay as they were, and
\* nothing is emitted.
C6_UnknownApprovalIsNoOp ==
    [][(last'.op = "handleApproval" /\ ~last'.flag)
          => /\ UNCHANGED <<pendingApprovals, pc, approved, decidedBy, microtasks,
                            conversationHistory, currentLoopCount, timers>>
             /\ out' = <<>>
      ]_vars

\* A decision for an id that is not in the table arrived while another
\* request was pending, after an earlier request had been resolved
C6_Witness ==
    /\ last.op = "handleApproval" /\ ~last.flag
    /\ pendingApprovals # <<>>
    /\ \E t \in Turns : pc[t] = "approval"
    /\ \E t \in Turns : pc[t] \in {"done", "exec"}

\* C7: right after reset() and right after the connection closes, the
\* pending table is empty and no turn is still suspended on an approval.
C7_ResetAndCloseResolveAll ==
    (last.op \in {"reset", "close"})
        => (pendingApprovals = <<>> /\ \A t \in Turns : pc[t] # "approval")

\* C8: the approval a reset finds pending resolves as denied, and the next
\* user message accepted after such a reset leaves the history holding that
\* message alone.
C8_FreshHistoryAfterReset ==
    /\ (last.op = "reset")
          => \A i \in DOMAIN microtasks :
                pc[microtasks[i]] = "resumed" /\ ~approved[microtasks[i]]
    /\ (last.op = "handleUserMessage" /\ last.flag)
          => conversationHistory = <<Msg("user", UserText(last.turn), NoId, <<>>)>>

\* C9: the preamble is the one built by the constructor in every state, and
\* a reset made while no turn is in progress leaves the state of a freshly
\* constructed session: empty history, counter 0, empty pending table.
C9_IdleResetIsFreshSession ==
    /\ systemPrompt = InitialSystemPrompt
    /\ (last.op = "reset" /\ last.flag)
          => /\ conversationHistory = <<>>
             /\ currentLoopCount = 0
             /\ pendingApprovals = <<>>

\* An idle reset made after a turn has run to its end
C9_Witness ==
    /\ last.op = "reset" /\ last.flag
    /\ \E t \in Turns : pc[t] = "done"

\* C10: when every answer of the model asks for a tool, a turn makes at most
\* 10 inference calls, has made exactly 10 when it ends, ends with exactly
\* one maximum-iterations response, and the next user message starts its
\* loop from a counter reset to 0.
C10_ExhaustionAfterTenInferences ==
    llm.loop =>
        /\ \A t \in Turns :
              /\ inferences[t] <= maxLoopIterations
              /\ maxMsgs[t] <= 1
              /\ (pc[t] = "done")
                    => (inferences[t] = maxLoopIterations /\ maxMsgs[t] = 1)
        /\ (last.op = "handleUserMessage") => currentLoopCount = 1

\* C11: the step that dispatches a batch starting with a call of an unknown
\* tool records a failure tool message for that call, goes on to the next
\* call of the batch in the same step, and the turn ends only after a
\* further inference call.
C11_UnknownToolDoesNotStopLoop ==
    (llm.first = MixedBatch /\ ~llm.loop) =>
        /\ (last.op = "llmComplete" /\ inferences[last.turn] = 1) =>
              /\ conversationHistory # <<>>
              /\ conversationHistory[Len(conversationHistory)]
                    = Msg("tool", UnknownToolResult("no_such_tool"), "c1", <<>>)
              /\ Len(out) >= 3
              /\ out[Len(out) - 2] = Ev("error", NoId, UnknownToolError("no_such_tool"))
              /\ out[Len(out) - 1] = Ev("tool_call", "execute_command", "args")
              /\ out[Len(out)].type = "approval_request"
              /\ pc[last.turn] = "approval"
              /\ calls[last.turn] = <<Call("c2", "execute_command")>>
        /\ \A t \in Turns : pc[t] = "done" => inferences[t] = 2

\* A turn whose batch began with an unknown tool has ended after its second
\* inference call
C11_Witness ==
    /\ llm.first = MixedBatch /\ ~llm.loop
    /\ \E t \in Turns : pc[t] = "done" /\ inferences[t] = 2

\* The number of events of the given type among evs
CountType(evs, type) == Cardinality({i \in DOMAIN evs : evs[i].type = type})

\* C12: the step in which a tool's execute throws emits exactly one
\* tool_result, carrying the error, and no error event, appends exactly one
\* tool message for that call, and leaves the turn in its loop: at the next
\* call of the batch or about to re-enter the loop; and a turn that ends
\* with a final answer after a tool batch has made a second inference call.
C12_ThrownToolIsCaptured ==
    /\ [][(last'.op = "execComplete" /\ ~last'.flag) =>
             /\ conversationHistory' =
                   Append(conversationHistory,
                          Msg("tool", ThrownResult(last'.id), callId[last'.turn], <<>>))
             /\ Head(out') = Ev("tool_result", last'.id, ThrownResult(last'.id))
             /\ CountType(out', "tool_result") = 1
             /\ CountType(out', "error") = 0
             /\ CountType(out', "agent_response") = 0
             /\ pc'[last'.turn] \in {"exec", "approval", "batch_done"}
             /\ calls'[last'.turn] = Tail(calls[last'.turn])
         ]_vars
    /\ []((~llm.loop /\ llm.first.tool_calls # <<>>)
             => \A t \in Turns : pc[t] = "done" => inferences[t] = 2)

\* The first tool of a two-call batch has thrown and the second call of the
\* batch is being executed
C12_Witness ==
    /\ last.op = "execComplete" /\ ~last.flag
    /\ pc[last.turn] = "exec"
    /\ calls[last.turn] = <<Call("c2", "list_dir")>>

\* C13: the step in which the inference call rejects emits exactly one error
\* event and nothing else and ends the turn; and every user message accepted
\* (after a failed turn as after any other) starts a turn with the counter
\* restarted and its first inference call under way.
C13_InferenceFailureEndsTurn ==
    /\ (last.op = "llmReject") =>
          /\ out = <<Ev("error", NoId, <<"inference failed">>)>>
          /\ pc[last.turn] = "failed"
    /\ (last.op = "handleUserMessage") =>
          /\ currentLoopCount = 1
          /\ pc[last.turn] = "llm"
          /\ inferences[last.turn] = 1
          /\ conversationHistory[Len(conversationHistory)]
                = Msg("user", UserText(last.turn), NoId, <<>>)

\* A user message has been accepted after the previous turn ended by a
\* rejected inference call
C13_Witness ==
    /\ last.op = "handleUserMessage" /\ last.turn > 1
    /\ pc[last.turn - 1] = "failed"
    /\ pc[last.turn] = "llm"

\* C14: every turn that has started eventually ends (answer, exhaustion or
\* inference failure), and when no turn is in progress no approval is left
\* in the pending table.
C14_EveryTurnEnds ==
    /\ \A t \in Turns : InProgress(t) ~> ~InProgress(t)
    /\ []((\A t \in Turns : ~InProgress(t)) => pendingApprovals = <<>>)

\* C15: at most one Think-Act-Observe loop is active in the session at any
\* time: no two handleUserMessage calls are in progress together.
C15_OneLoopAtATime == Cardinality({t \in Turns : InProgress(t)}) <= 1

\* A tool message of the history that carries the given tool_call_id
IsToolMsg(m, id) == m.role = "tool" /\ m.tool_call_id = id

\* C16: the calls of a batch are handled one at a time and in order.  A turn
\* is at one call only, the head of what is left of its batch; the events of
\* one step come in call order (the tool_result of the call just finished
\* first, then unknown-tool errors, then at most one tool_call, then at most
\* one approval_request, for the tool of that tool_call); the table never
\* holds more requests than there are turns waiting for one; and the result
\* of a batch's second call is never recorded before that of its first.
C16_BatchInOrder ==
    /\ \A t \in Turns :
          /\ pc[t] \in {"approval", "resumed", "exec"} =>
                (calls[t] # <<>> /\ getToolByName(Head(calls[t]).name) # NoId)
          /\ pc[t] \in {"approval", "resumed"} => requiresApproval(Head(calls[t]).name)
          /\ pc[t] \in {"llm", "batch_done"} => calls[t] = <<>>
    /\ \A i \in DOMAIN out :
          /\ out[i].type = "tool_result" => i = 1
          /\ out[i].type = "tool_call" =>
                /\ \A j \in DOMAIN out : j > i => out[j].type = "approval_request"
                /\ \E t \in Turns : /\ pc[t] \in {"approval", "exec"}
                                    /\ Head(calls[t]).name = out[i].tool
          /\ out[i].type = "approval_request" =>
                /\ i = Len(out) /\ i > 1
                /\ out[i - 1].type = "tool_call" /\ out[i - 1].tool = out[i].tool
    /\ CountType(out, "tool_call") <= 1
    /\ Len(pendingApprovals) <= Cardinality({t \in Turns : pc[t] = "approval"})
    /\ (llm.first \in {SeqBatch, MixedBatch}) =>
          \A i \in DOMAIN conversationHistory :
             (IsToolMsg(conversationHistory[i], "c2") /\ i < Len(conversationHistory))
                => ~IsToolMsg(conversationHistory[i + 1], "c1")

\* The first call of a two-call batch has just finished: its tool_result is
\* followed by the tool_call of the second call, which is now executing
C16_Witness ==
    /\ last.op = "execComplete"
    /\ out = <<Ev("tool_result", "read_file", OkResult("read_file")),
               Ev("tool_call", "list_dir", "args")>>
    /\ pc[last.turn] = "exec"
    /\ calls[last.turn] = <<Call("c2", "list_dir")>>

\* C17: the cumulative token count a session is told in its token_stats
\* event is made of that session's own inference calls since its own last
\* reset: no call or reset of another session changes it.
C17_SessionsIsolated == \A x \in Sessions : sessCumulative[x] = sessExpected[x]

\* The spans of text that are well-formed objects and lie in no larger one
OuterBlocks(text) ==
    LET spans == {ij \in (DOMAIN text) \X (DOMAIN text) :
                     ij[1] < ij[2] /\ IsObject(SubSeq(text, ij[1], ij[2]))}
    IN  {ij \in spans : ~\E kl \in spans : kl # ij /\ kl[1] <= ij[1] /\ ij[2] <= kl[2]}

\* C18: with a model whose first answer is a single read_file call, the step
\* that receives that answer emits exactly one tool_call, for read_file, and
\* starts the tool; the step in which the tool settles emits exactly one
\* tool_result and nothing else and queues the re-entry of the loop, which is
\* the next step and makes the second inference call; no approval_request is
\* ever sent, and the turn ends only after its second inference call.
C18_SingleReadCall ==
    (llm.first = ReadBatch /\ ~llm.loop) =>
        /\ ~asked
        /\ (last.op = "llmComplete" /\ inferences[last.turn] = 1) =>
              /\ CountType(out, "tool_call") = 1
              /\ out[Len(out)] = Ev("tool_call", "read_file", "args")
              /\ CountType(out, "tool_result") = 0
              /\ CountType(out, "approval_request") = 0
              /\ CountType(out, "agent_response") = 0
              /\ pc[last.turn] = "exec"
        /\ (last.op = "execComplete") =>
              /\ Len(out) = 1
              /\ out[1].type = "tool_result" /\ out[1].tool = "read_file"
              /\ pc[last.turn] = "batch_done"
              /\ inferences[last.turn] = 1
        /\ \A t \in Turns :
              /\ pc[t] = "batch_done" => (microtasks # <<>> /\ Head(microtasks) = t)
              /\ pc[t] = "exec" => inferences[t] = 1
              /\ pc[t] = "done" => inferences[t] = 2
        /\ (last.op = "loopAgain") =>
              /\ inferences[last.turn] = 2
              /\ pc[last.turn] = "llm"
              /\ out = <<Ev("agent_thinking", NoId, <<"Thinking...">>)>>

\* The second inference call of a turn whose first answer was the single
\* read_file call has just been made
C18_Witness ==
    /\ llm.first = ReadBatch /\ ~llm.loop
    /\ last.op = "loopAgain"
    /\ inferences[last.turn] = 2 /\ pc[last.turn] = "llm"

\* C19: with a model whose first answer is plain prose, the step that
\* receives the answer emits, besides the token statistics, exactly one
\* agent_response whose content is the full text, records that text as the
\* assistant message and ends the turn; no step of the run emits a
\* tool_call, tool_result or approval_request, no other step emits an
\* agent_response, and no turn makes a second inference call.
C19_ProseIsTheAnswer ==
    (llm.first \in ProseAnswers /\ ~llm.loop) =>
        /\ (last.op = "llmComplete") =>
              /\ out = <<Ev("token_stats", NoId, <<>>),
                         Ev("agent_response", NoId, llm.first.raw)>>
              /\ conversationHistory[Len(conversationHistory)]
                    = Msg("assistant", llm.first.raw, NoId, <<>>)
              /\ pc[last.turn] = "done"
              /\ inferences[last.turn] = 1
        /\ (last.op # "llmComplete") => CountType(out, "agent_response") = 0
        /\ CountType(out, "tool_call") = 0
        /\ CountType(out, "tool_result") = 0
        /\ CountType(out, "approval_request") = 0
        /\ ~asked
        /\ \A t \in Turns : inferences[t] <= 1 /\ calls[t] = <<>>

\* A turn has just ended with the prose of the model as its answer
C19_Witness ==
    /\ llm.first \in ProseAnswers /\ ~llm.loop
    /\ last.op = "llmComplete"
    /\ pc[last.turn] = "done"
    /\ CountType(out, "agent_response") = 1

\* C20: for a text holding exactly one well-formed block, whatever surrounds
\* it, the parser returns the fields of that block; for a text holding no
\* well-formed block it returns the whole text as the response.
C20_ParserExtractsTheBlock ==
    (parsed # NotParsed) =>
        /\ (Cardinality(OuterBlocks(modelText)) = 1) =>
              \A ij \in OuterBlocks(modelText) :
                  parsed = Intent(SubSeq(modelText, ij[1], ij[2]))
        /\ (OuterBlocks(modelText) = {}) =>
              parsed = [kind |-> "parsed", thought |-> FALSE, tool_calls |-> FALSE,
                        response |-> modelText]

\* The same, for texts whose surroundings of the block hold no brace
C20_BraceFreeFiller ==
    (parsed # NotParsed /\ Cardinality(OuterBlocks(modelText)) = 1) =>
        \A ij \in OuterBlocks(modelText) :
            (\A k \in DOMAIN modelText :
                 (k < ij[1] \/ k > ij[2]) => modelText[k] \notin {"{", "}"})
                => parsed = Intent(SubSeq(modelText, ij[1], ij[2]))

\* The first balanced block of text: from its first "{" to the "}" that
\* closes it; <<>> if the text has no "{" or its first "{" is never closed
FirstBlock(text) ==
    LET opens == {k \in DOMAIN text : text[k] = "{"}
        first == CHOOSE k \in opens : \A n \in opens : k <= n
        rest == SubSeq(text, first, Len(text))
        ends == {k \in DOMAIN rest : Depth(rest, k) = 0}
        close == CHOOSE k \in ends : \A n \in ends : k <= n
    IN  IF opens = {} THEN <<>>
        ELSE IF ends = {} THEN <<>>
        ELSE SubSeq(rest, 1, close)

\* C21: the parser interprets the first balanced block of the text: when
\* that block is a well-formed object the parser returns its fields,
\* whatever follows it (filler, further blocks), and the raw text is
\* returned as the response only when that first block is not well formed.
C21_FirstBalancedBlock ==
    (parsed # NotParsed /\ FirstBlock(modelText) # <<>>) =>
        IF IsObject(FirstBlock(modelText))
        THEN parsed = Intent(FirstBlock(modelText))
        ELSE parsed = [kind |-> "parsed", thought |-> FALSE, tool_calls |-> FALSE,
                       response |-> modelText]

\* The same, for texts with no brace after the first balanced block
C21_NothingAfterTheBlock ==
    (/\ parsed # NotParsed
     /\ FirstBlock(modelText) # <<>> /\ IsObject(FirstBlock(modelText))
     /\ Match(modelText) = FirstBlock(modelText))
        => parsed = Intent(FirstBlock(modelText))

\* h is an initial segment of g
IsPrefix(h, g) == Len(h) <= Len(g) /\ SubSeq(g, 1, Len(h)) = h

\* C22: every step other than reset() leaves the history it found as an
\* initial segment of the history it leaves (nothing is removed, edited or
\* reordered), the receipt of a user message adds exactly one message, and a
\* step that is not part of a turn adds none.
C22_HistoryAppendOnly ==
    [][(last'.op # "reset") =>
          /\ IsPrefix(conversationHistory, conversationHistory')
          /\ (last'.op = "handleUserMessage")
                => Len(conversationHistory') = Len(conversationHistory) + 1
          /\ (last'.op \in {"handleApproval", "timeout", "close", "llmReject", "loopAgain"})
                => conversationHistory' = conversationHistory
      ]_vars

\* A second user message has been appended behind the messages of a turn
\* that used a tool
C22_Witness ==
    /\ last.op = "handleUserMessage" /\ last.turn = 2
    /\ Len(conversationHistory) >= 5
    /\ conversationHistory[1].role = "user"
    /\ conversationHistory[3].role = "tool"

\* the ids of the calls recorded in the assistant messages of h before index i
RequestedIds(h, i) ==
    UNION {{h[j].tool_calls[k].id : k \in 1..Len(h[j].tool_calls)} :
              j \in {n \in 1..(i - 1) : h[n].role = "assistant"}}

\* C23: every tool message of the history carries the id of a call recorded
\* in the tool_calls of an assistant message before it, whether the model
\* supplied the id or the core generated it.
C23_ToolMessageCorrelates ==
    \A i \in DOMAIN conversationHistory :
        conversationHistory[i].role = "tool"
            => /\ conversationHistory[i].tool_call_id # NoId
               /\ conversationHistory[i].tool_call_id \in RequestedIds(conversationHistory, i)

\* The same, when the model supplies the id of every call and the assistant
\* message of the batch is still in the history
C23_SuppliedIdsCorrelate ==
    (llm.first # BareBatch) =>
        \A i \in DOMAIN conversationHistory :
            (conversationHistory[i].role = "tool"
             /\ \E j \in 1..(i - 1) : conversationHistory[j].role = "assistant")
                => conversationHistory[i].tool_call_id \in RequestedIds(conversationHistory, i)

\* C24: with a client that sends one message at a time, two tool messages
\* of the history with only tool messages between them (the results of one
\* batch) never carry the same tool_call_id.
C24_BatchIdsDistinct ==
    (client = "serial") =>
        \A i, k \in DOMAIN conversationHistory :
            (/\ i < k
             /\ \A n \in i..k : conversationHistory[n].role = "tool")
                => conversationHistory[i].tool_call_id # conversationHistory[k].tool_call_id

\* The same, when the model gives the calls of a batch different ids
C24_DistinctWhenModelDistinct ==
    (client = "serial" /\ llm.first # TwinBatch) =>
        \A i, k \in DOMAIN conversationHistory :
            (/\ i < k
             /\ \A n \in i..k : conversationHistory[n].role = "tool")
                => conversationHistory[i].tool_call_id # conversationHistory[k].tool_call_id

\* the step has created an approval request (its last event announces it)
CreatesRequest(evs) == evs # <<>> /\ evs[Len(evs)].type = "approval_request"

\* C25: a step that creates an approval request finds no entry of the
\* pending table under the requestId it draws, so the table gains an entry
\* and no live request loses its resolution channel.
C25_NoSharedRequestId ==
    [][CreatesRequest(out') =>
          /\ ~MapHas(pendingApprovals, out'[Len(out')].payload)
          /\ Len(pendingApprovals') = Len(pendingApprovals) + 1
      ]_vars

\* The same, for a client that sends one message at a time
C25_SerialClientNoSharedId ==
    [][(client = "serial" /\ CreatesRequest(out')) =>
          /\ ~MapHas(pendingApprovals, out'[Len(out')].payload)
          /\ Len(pendingApprovals') = Len(pendingApprovals) + 1
      ]_vars

\* C26: every agent_response_stream event of an inference call carries the
\* concatenation of the increments of that call passed to onToken so far.
C26_StreamCarriesAccumulation ==
    \A t \in Turns : increments[t] # <<>> => streamContent[t] = increments[t]

\* The same, for a client that sends one message at a time
C26_SerialStreamAccumulates ==
    (client = "serial") =>
        \A t \in Turns : increments[t] # <<>> => streamContent[t] = increments[t]

\* C27: when an inference call that forwarded at least one increment has
\* returned, the text given to the parser is the content of the last
\* agent_response_stream event of that call.
C27_ParsedIsLastStreamed ==
    \A t \in Turns :
        (streamPc[t] = "returned" /\ increments[t] # <<>>)
            => completion[t] = streamContent[t]

\* The same, for a client that sends one message at a time
C27_SerialParsedIsLastStreamed ==
    (client = "serial") =>
        \A t \in Turns :
            (streamPc[t] = "returned" /\ increments[t] # <<>>)
                => completion[t] = streamContent[t]

\* every turn suspended on an approval still has its entry in the pending table
EntryKept ==
    \A t \in Turns :
        pc[t] = "approval" => \E i \in DOMAIN pendingApprovals :
                                  pendingApprovals[i].promise = promise[t]

\* C28: once the connection is closed, every turn in progress still runs to
\* its end (the events it sends are dropped, nothing waits for the client).
C28_ClosedObserverDoesNotStall ==
    \A t \in Turns : (~wsOpen /\ InProgress(t)) ~> ~InProgress(t)

\* The same, in the runs in which no request loses its entry of the pending
\* table to the timer of an earlier request with the same requestId
C28_EndsWhenEntryKept ==
    ([]EntryKept) => \A t \in Turns : (~wsOpen /\ InProgress(t)) ~> ~InProgress(t)

\* C29: the step that receives a user message leaves the counter at 1 (set
\* to 0, then incremented on entering the loop), appends exactly one message,
\* the user message with that text, emits exactly one user_message_received
\* event, before the agent_thinking event that announces the inference call,
\* and makes the first inference call of the turn, which is given a history
\* that ends with that user message.
C29_ReceiptThenThinking ==
    [][(last'.op = "handleUserMessage") =>
          /\ currentLoopCount' = 1
          /\ conversationHistory' =
                Append(conversationHistory, Msg("user", UserText(last'.turn), NoId, <<>>))
          /\ out' = <<Ev("user_message_received", NoId, UserText(last'.turn)),
                      Ev("agent_thinking", NoId, <<"Thinking...">>)>>
          /\ pc[last'.turn] = "unused" /\ pc'[last'.turn] = "llm"
          /\ inferences[last'.turn] = 0 /\ inferences'[last'.turn] = 1
      ]_vars

\* A second user message has been received after a turn that went through
\* the loop twice
C29_Witness ==
    /\ last.op = "handleUserMessage" /\ last.turn = 2
    /\ pc[1] = "done" /\ inferences[1] = 2
    /\ pc[2] = "llm" /\ currentLoopCount = 1

\* the batch the model asked for in the answer whose tool phase turn t is in
BatchOf(t) == (IF llm.loop THEN ReadBatch ELSE llm.first).tool_calls

\* the history ends with the assistant message recording the batch b followed
\* by one tool message per call of b, in call order
EndsWithBatch(h, b) ==
    LET n == Len(b)
    IN  /\ Len(h) >= n + 1
        /\ h[Len(h) - n].role = "assistant"
        /\ h[Len(h) - n].tool_calls = b
        /\ \A k \in 1..n :
              /\ h[Len(h) - n + k].role = "tool"
              /\ b[k].id # NoId => h[Len(h) - n + k].tool_call_id = b[k].id

\* C30: when the tool phase of a turn has completed and the loop is about to
\* return to the inference call, the history ends with the assistant message
\* that records the calls of the batch followed by exactly one tool message
\* per call, in call order; and while the tool phase lasts the turn makes no
\* inference call.
C30_BatchRecordedInOrder ==
    \A t \in Turns :
        /\ pc[t] = "batch_done" => EndsWithBatch(conversationHistory, BatchOf(t))
        /\ pc[t] = "llm" => calls[t] = <<>>

\* The same, for a client that sends one message at a time and no reset
\* while the turn is in progress
C30_UndisturbedBatchRecorded ==
    (client = "serial" /\ ~resetSent) =>
        \A t \in Turns :
            /\ pc[t] = "batch_done" => EndsWithBatch(conversationHistory, BatchOf(t))
            /\ pc[t] = "llm" => calls[t] = <<>>

\* the tools the README lists as running without confirmation
FreeTools == {"read_file", "list_dir", "search_files"}

\* C31: an approval_request is sent only for write_file or execute_command,
\* directly after the tool_call event of that call and at most once in a
\* step; every tool_call for one of these two tools is directly followed by
\* its approval_request, the turn then waits and does not execute; a
\* tool_call for read_file, list_dir or search_files is followed by no
\* approval_request and the tool runs; no event names an unknown tool; and a
\* run whose model never asks for write_file or execute_command sees no
\* approval request at all.
C31_ApprovalOnlyWhenRequired ==
    /\ CountType(out, "approval_request") <= 1
    /\ \A i \in DOMAIN out :
          /\ out[i].type = "approval_request" =>
                /\ out[i].tool \in ToolNames \ FreeTools
                /\ i > 1 /\ out[i - 1] = Ev("tool_call", out[i].tool, "args")
                /\ \E t \in Turns : /\ pc[t] = "approval"
                                    /\ Head(calls[t]).name = out[i].tool
          /\ out[i].type = "tool_call" =>
                /\ out[i].tool \in ToolNames
                /\ IF out[i].tool \in FreeTools
                   THEN /\ i = Len(out)
                        /\ \E t \in Turns : /\ pc[t] = "exec"
                                            /\ Head(calls[t]).name = out[i].tool
                   ELSE /\ i < Len(out)
                        /\ out[i + 1].type = "approval_request"
                        /\ out[i + 1].tool = out[i].tool
    /\ \A t \in Turns :
          (pc[t] = "exec" /\ Head(calls[t]).name \notin FreeTools) => approved[t]
    /\ asked => \E k \in DOMAIN llm.first.tool_calls :
                    llm.first.tool_calls[k].name \in ToolNames \ FreeTools

\* An approval request has just been created for execute_command, the call
\* that follows an unknown tool in its batch
C31_Witness ==
    /\ CreatesRequest(out)
    /\ out[Len(out)].tool = "execute_command"
    /\ \E t \in Turns : pc[t] = "approval" /\ ~approved[t]

\* the answer the inference call of turn t resolves with
AnswerOf(t) == CHOOSE r \in LLMAnswers(t) : TRUE

\* C32: the step that receives an answer holding a response and no tool call
\* appends exactly one message, the assistant message with the content of
\* the response field, emits exactly one agent_response event with that
\* content, as its last event, and ends the turn without another inference
\* call; and a turn that has ended makes no further inference call.
C32_FinalResponseEndsTurn ==
    [][/\ (/\ last'.op = "llmComplete"
            /\ AnswerOf(last'.turn).tool_calls = <<>>
            /\ AnswerOf(last'.turn).response # <<>>) =>
              /\ conversationHistory' =
                    Append(conversationHistory,
                           Msg("assistant", AnswerOf(last'.turn).response, NoId, <<>>))
              /\ CountType(out', "agent_response") = 1
              /\ out'[Len(out')] = Ev("agent_response", NoId, AnswerOf(last'.turn).response)
              /\ pc'[last'.turn] = "done"
              /\ inferences' = inferences
       /\ \A t \in Turns :
              pc[t] = "done" => (pc'[t] = "done" /\ inferences'[t] = inferences[t])
      ]_vars

\* A turn has just ended with the response field of a well-formed payload
\* as its answer
C32_Witness ==
    /\ llm.first = JsonAnswer /\ ~llm.loop
    /\ last.op = "llmComplete"
    /\ pc[last.turn] = "done"
    /\ conversationHistory[Len(conversationHistory)] = Msg("assistant", <<"R">>, NoId, <<>>)
    /\ out[Len(out)] = Ev("agent_response", NoId, <<"R">>)

\* turn t has emitted the tool_call of the head of its batch and not yet
\* the tool_result of that call
Outstanding(t) == pc[t] \in {"approval", "resumed", "exec"}

\* C33: with a client that sends one message at a time, the step in which a
\* turn leaves a call whose tool_call it has emitted (denied, timed out,
\* denied by a reset, succeeded or thrown) emits exactly one tool_result, for
\* the tool of that call and before anything else; a tool_result is emitted
\* by no other step; no tool_call is emitted and no inference call is made
\* while a call waits for its tool_result; and no tool_call or tool_result
\* names an unknown tool.
C33_OneResultPerCall ==
    [][(client = "serial") =>
          /\ \A t \in Turns :
                (Outstanding(t) /\ calls'[t] # calls[t]) =>
                    /\ calls'[t] = Tail(calls[t])
                    /\ out' # <<>>
                    /\ out'[1].type = "tool_result"
                    /\ out'[1].tool = Head(calls[t]).name
                    /\ CountType(out', "tool_result") = 1
          /\ (out' # out /\ CountType(out', "tool_result") > 0) =>
                \E t \in Turns : Outstanding(t) /\ calls'[t] # calls[t]
          /\ (CountType(out', "tool_call") > 0 /\ out' # out) =>
                \A t \in Turns : Outstanding(t) => calls'[t] # calls[t]
          /\ (inferences' # inferences) => \A t \in Turns : ~Outstanding(t)
          /\ \A i \in DOMAIN out' :
                out'[i].type \in {"tool_call", "tool_result"} => out'[i].tool \in ToolNames
      ]_vars

\* A reset has denied the pending approval of write_file and the turn has
\* emitted the tool_result of the denial
C33_Witness ==
    /\ client = "serial"
    /\ last.op = "resume" /\ ~last.flag
    /\ resetSent
    /\ out = <<Ev("tool_result", "write_file", DeniedResult)>>

\* C34: the step that ends a turn on iteration exhaustion emits the error
\* and the fixed maximum-iterations agent_response and leaves the history as
\* it was, making no inference call; so no message of the history ever
\* carries the maximum-iterations text.
C34_ExhaustionLeavesHistory ==
    [][/\ (last'.op = "loopAgain" /\ pc'[last'.turn] = "done") =>
              /\ out' = <<Ev("error", NoId, MaxIterError),
                          Ev("agent_response", NoId, MaxIterText)>>
              /\ conversationHistory' = conversationHistory
              /\ inferences' = inferences
       /\ \A i \in DOMAIN conversationHistory' :
              conversationHistory'[i].content # MaxIterText
      ]_vars

\* A turn has just ended on iteration exhaustion; the last message of the
\* history is the result of its last tool call
C34_Witness ==
    /\ last.op = "loopAgain" /\ pc[last.turn] = "done"
    /\ out[Len(out)] = Ev("agent_response", NoId, MaxIterText)
    /\ conversationHistory # <<>>
    /\ conversationHistory[Len(conversationHistory)].role = "tool"

\* C35: with a model whose first answer holds both a tool call and a
\* response field, the step that receives that answer takes the tool path:
\* it emits the tool_call and no agent_response, appends the assistant
\* message recording the calls and no message carrying the response field,
\* and starts the tool; the turn ends only after a second inference call.
C35_ToolPathWins ==
    (llm.first = CallsAndResponse /\ ~llm.loop) =>
        /\ (last.op = "llmComplete" /\ inferences[last.turn] = 1) =>
              /\ out[Len(out)] = Ev("tool_call", "read_file", "args")
              /\ CountType(out, "agent_response") = 0
              /\ conversationHistory[Len(conversationHistory)]
                    = Msg("assistant", DefaultThought, NoId, CallsAndResponse.tool_calls)
              /\ pc[last.turn] = "exec"
        /\ \A i \in DOMAIN conversationHistory :
              /\ conversationHistory[i].content # CallsAndResponse.response
              /\ conversationHistory[i].content # CallsAndResponse.raw
        /\ \A i \in DOMAIN out :
              out[i].type = "agent_response" => out[i].payload = FinalAnswer.response
        /\ \A t \in Turns : pc[t] = "done" => inferences[t] = 2

\* The tool of an answer that also held a response field has run and the
\* turn has made its second inference call
C35_Witness ==
    /\ llm.first = CallsAndResponse /\ ~llm.loop
    /\ CallsAndResponse.tool_calls # <<>> /\ CallsAndResponse.response # <<>>
    /\ \E t \in Turns : pc[t] = "llm" /\ inferences[t] = 2

\* C36: every step in which an inference call completes either starts a
\* tool phase (the assistant message recording the calls is appended first,
\* no agent_response is emitted) or ends the turn with exactly one
\* agent_response and exactly one appended message, the assistant message
\* with the content of that event; and for a well-formed payload holding a
\* thought only, that content is the whole text of the model.
C36_ToolPhaseOrOneAnswer ==
    [][(last'.op = "llmComplete") =>
          LET t == last'.turn
              n == Len(conversationHistory)
          IN  /\ \/ /\ pc'[t] \in {"approval", "exec", "batch_done"}
                    /\ AnswerOf(t).tool_calls # <<>>
                    /\ CountType(out', "agent_response") = 0
                    /\ Len(conversationHistory') > n
                    /\ SubSeq(conversationHistory', 1, n) = conversationHistory
                    /\ conversationHistory'[n + 1].role = "assistant"
                    /\ conversationHistory'[n + 1].tool_calls = AnswerOf(t).tool_calls
                 \/ /\ pc'[t] = "done"
                    /\ AnswerOf(t).tool_calls = <<>>
                    /\ CountType(out', "agent_response") = 1
                    /\ out'[Len(out')].type = "agent_response"
                    /\ conversationHistory' =
                          Append(conversationHistory,
                                 Msg("assistant", out'[Len(out')].payload, NoId, <<>>))
              /\ (AnswerOf(t) = ThoughtOnlyAnswer) =>
                    out'[Len(out')] = Ev("agent_response", NoId, <<"{", "H", "}">>)
      ]_vars

\* A turn has just ended with the whole text of a thought-only payload as
\* its answer
C36_Witness ==
    /\ llm.first = ThoughtOnlyAnswer /\ ~llm.loop
    /\ last.op = "llmComplete" /\ pc[last.turn] = "done"
    /\ out = <<Ev("token_stats", NoId, <<>>), Ev("agent_thought", NoId, <<"t">>),
               Ev("agent_response", NoId, <<"{", "H", "}">>)>>

\* C37: whenever the App holds an approval prompt, the pending table of the
\* agent holds the requestId of that prompt.
C37_PromptOnlyWhilePending ==
    uiPending # NoId => MapHas(pendingApprovals, uiPending)

\* The same, for a client that sends one message at a time, as long as no
\* timer has fired
C37_PromptPendingBeforeAnyTimeout ==
    (client = "serial" /\ Len(timers) = uiRequests /\ uiPending # NoId)
        => MapHas(pendingApprovals, uiPending)

\* C38: a frame that is not valid JSON makes the server send exactly one
\* error event, Invalid message format, and a JSON frame of an unknown type
\* makes it send nothing; both leave the history, the counter, the pending
\* approvals, the timers and the position of every turn unchanged and the
\* connection open.
C38_BadFramesChangeNothing ==
    [][(last'.op \in {"badFrame", "unknownFrame"}) =>
          /\ out' = IF last'.op = "badFrame"
                    THEN <<Ev("error", NoId, InvalidFormat)>> ELSE <<>>
          /\ wsOpen /\ wsOpen'
          /\ UNCHANGED <<conversationHistory, currentLoopCount, pendingApprovals, timers,
                         pc, calls, microtasks, inferences, systemPrompt>>
      ]_vars

\* A frame that is not valid JSON has arrived while a turn was waiting for
\* an approval
C38_Witness ==
    /\ last.op = "badFrame"
    /\ out = <<Ev("error", NoId, InvalidFormat)>>
    /\ \E t \in Turns : pc[t] = "approval"
    /\ pendingApprovals # <<>>

\* C39: in the Agent that takes text commands, a message that is reset,
\* exit or quit once lower-cased and trimmed starts no inference and adds
\* nothing to the history and sends exactly one agent_response; reset empties
\* the history, sets the counter to 0 and resolves every pending approval as
\* denied, and exit and quit leave the whole state of the agent as it was.
C39_CommandsStartNoTurn ==
    [][(last'.op = "handleTextMessage" /\ last'.id \in ResetTexts \cup ExitTexts) =>
          /\ inferences' = inferences
          /\ \A t \in Turns : pc'[t] = "llm" => pc[t] = "llm"
          /\ Len(conversationHistory') <= Len(conversationHistory)
          /\ Len(out') = 1 /\ out'[1].type = "agent_response"
          /\ (last'.id \in ResetTexts) =>
                /\ conversationHistory' = <<>>
                /\ currentLoopCount' = 0
                /\ pendingApprovals' = <<>>
                /\ \A t \in Turns :
                       (/\ pc[t] = "approval"
                        /\ \E i \in DOMAIN pendingApprovals :
                               pendingApprovals[i].promise = promise[t])
                           => pc'[t] = "resumed" /\ ~approved'[t]
          /\ (last'.id \in ExitTexts) =>
                UNCHANGED <<conversationHistory, systemPrompt, currentLoopCount,
                            pendingApprovals, timers, microtasks, pc, calls, promise,
                            approved, wsOpen>>
      ]_vars

\* reset, written in capitals between blanks, has arrived while a turn was
\* waiting for an approval, and that turn is resumed with a denial
C39_Witness ==
    /\ last.op = "handleTextMessage"
    /\ last.id = <<" ", "R", "e", "S", "E", "T", " ">>
    /\ \E t \in Turns : pc[t] = "resumed" /\ ~approved[t] /\ decidedBy[t] = "reset"
    /\ conversationHistory = <<>>

====
